---- MODULE Spec2Model ----
(***************************************************************************)
(* Edge-trigger substrate of the pipeline executor:                        *)
(*   src/query/src/pipelines/new/processors/port_trigger.rs                *)
(* UpdateList (dirty-edge list + trigger registry), UpdateTrigger (the     *)
(* version / prev_version debounce) and DirectedEdge (edge tag resolved    *)
(* against the execution graph).                                           *)
(***************************************************************************)
EXTENDS Integers, Sequences, FiniteSets, TLC

(* ---------------------------------------------------------------- bounds *)
\* Triggers registered in the execution specification Spec.
MaxTriggers == 2
\* Recording calls (update_input, update_output, update_edge) made in one
\* behaviour of Spec.
MaxCalls == 3
\* Scheduling cycles in one behaviour, each ended by UpdateList::trigger.
MaxCycle == 2
\* Threads sharing the UpdateList in the specifications with threads.
MaxThreads == 2
\* Triggers, calls and cycles in SpecLocked.
ThreadTriggers == 2
ThreadCalls == 3
ThreadCycle == 2
\* Signal calls in SpecRace.
RaceCalls == 3
\* Triggers built outside the registry in SpecDetached.
MaxDetached == 1
\* Tags recorded in SpecResolve.
ResolveCalls == 2
\* Triggers and signal calls in the ordering specification SpecOrder.
OrderTriggers == 3
OrderCalls == 4
\* Registry size, signal calls and cycles in SpecRegistry.
MaxRegistry == 5
RegistryCalls == 2
RegistryCycle == 1

\* Edge and node indices of the execution graph.
Edges == {1, 2}
Nodes == {"a", "b", "c"}

(* ------------------------------------------------------------- DirectedEdge *)
\* enum DirectedEdge { Source(EdgeIndex), Target(EdgeIndex) }
Dirs == {"Source", "Target"}

\* A tag as the dirty list and the queue hold it.  dir and index are the
\* enum's variant and payload; by and cyc are history annotations that the
\* code does not store: the registry slot whose signal emitted the tag (0 for
\* a direct update_edge call) and the cycle in which it was recorded.
DirectedEdge(dir, index, by, cyc) ==
    [dir |-> dir, index |-> index, by |-> by, cyc |-> cyc]

\* StableGraph: the edges present, each with its (source, target) endpoints.
GraphsWith(es) == [es -> Nodes \X Nodes]
Graphs == UNION {GraphsWith(es) : es \in SUBSET Edges}

\* graph.edge_endpoints(e): Some((source, target)) or None.
edge_endpoints(graph, e) ==
    IF e \in DOMAIN graph THEN <<"Some", graph[e]>> ELSE <<"None">>

\* Mutant of unwrap_field: None yields a default node in place of a panic.
unwrap_field_or_default(opt, i) ==
    IF opt[1] = "Some" THEN opt[2][i + 1] ELSE "a"

\* Option::unwrap followed by the tuple projection .0 / .1: a node, or a panic.
unwrap_field(opt, i) ==
    IF opt[1] = "Some" THEN opt[2][i + 1] ELSE "panic"

\* Mutant of get_source: the variant of the tag is ignored.
get_source_ignores_variant(tag, graph) ==
    unwrap_field(edge_endpoints(graph, tag.index), 0)

get_source(tag, graph) ==
    IF tag.dir = "Source"
    THEN unwrap_field(edge_endpoints(graph, tag.index), 0)
    ELSE unwrap_field(edge_endpoints(graph, tag.index), 1)

\* Mutant of get_target: the endpoints are not mirrored.
get_target_not_mirrored(tag, graph) ==
    IF tag.dir = "Source"
    THEN unwrap_field(edge_endpoints(graph, tag.index), 0)
    ELSE unwrap_field(edge_endpoints(graph, tag.index), 1)

get_target(tag, graph) ==
    IF tag.dir = "Source"
    THEN unwrap_field(edge_endpoints(graph, tag.index), 1)
    ELSE unwrap_field(edge_endpoints(graph, tag.index), 0)

(* ------------------------------------------------------------------ state *)
VARIABLES
    updated_edges,     \* UpdateListMutable.updated_edges: Seq of tags
    updated_triggers,  \* UpdateListMutable.updated_triggers: Seq of triggers
    vec_cap,           \* capacity of the updated_triggers Vec
    vec_buf,           \* identity of the Vec's heap buffer (0: not allocated)
    handles,           \* the *mut UpdateTrigger values create_trigger returned
    queue,             \* the scheduler's VecDeque passed to trigger()
    cycle,             \* history: number of trigger() calls so far
    hist,              \* history: per slot, the signals sent through its
                       \*          handle in the current cycle
    calls,             \* history: number of signal calls so far, through
                       \*          any handle, null ones included
    records,           \* history: number of direct update_edge calls so far
    pc,                \* per thread, where it stands inside a call
    emitted,           \* history: the tags handed to update_edge by threads,
                       \*          in call order
    detached,          \* triggers a caller built with UpdateTrigger::create
    graph,             \* the StableGraph the tags are resolved against
    resolved           \* the last tag resolved and what it resolved to

\* What the operations of UpdateList and UpdateTrigger, run as whole calls on
\* registered triggers, never touch.
apart == <<pc, emitted, detached, graph, resolved>>

vars == <<updated_edges, updated_triggers, vec_cap, vec_buf, handles, queue,
          cycle, hist, calls, records, apart>>

\* A raw pointer into the registry: the buffer it points into and the slot.
Null == [buf |-> 0, slot |-> 0]
Ptr(b, i) == [buf |-> b, slot |-> i]

\* The pointer addresses an entry of the Vec's current buffer.
Live(p) == p.buf = vec_buf /\ p.slot \in 1..Len(updated_triggers)

\* Mutant of UpdateTrigger_create: the trigger starts one version ahead of its
\* baseline.
UpdateTrigger_create_fired(index) ==
    [index |-> index, version |-> 1, prev_version |-> 0]

\* UpdateTrigger::create: version 0, prev_version 0, bound to index.
UpdateTrigger_create(index) ==
    [index |-> index, version |-> 0, prev_version |-> 0]

\* The threads that may hold a reference to the shared UpdateList.
Threads == 1..MaxThreads

\* A thread outside any call.
NoEdge == DirectedEdge("Source", 0, 0, 0)
Idle == [at |-> "idle", slot |-> 0, edge |-> NoEdge, seen |-> 0, len |-> 0]

\* Nothing has been resolved yet.
NoResult == [tag |-> NoEdge, source |-> "none", target |-> "none"]

\* UpdateList::create, every thread outside a call.
InitList ==
    /\ updated_edges = <<>>
    /\ updated_triggers = <<>>
    /\ vec_cap = 0
    /\ vec_buf = 0
    /\ handles = {}
    /\ queue = <<>>
    /\ cycle = 0
    /\ hist = <<>>
    /\ calls = 0
    /\ records = 0
    /\ pc = [th \in Threads |-> Idle]
    /\ emitted = <<>>
    /\ detached = <<>>
    /\ resolved = NoResult

\* UpdateList::create beside a graph that has no edge yet.
Init == InitList /\ graph = <<>>

(* ------------------------------------------------------------- UpdateList *)
\* Mutant of update_edge: the tag is inserted at the front of the dirty list.
update_edge_front(edge) ==
    updated_edges' = <<edge>> \o updated_edges

\* Mutant of update_edge: an edge already pending with the same variant is
\* not added again.
update_edge_once_per_edge(edge) ==
    IF \E i \in 1..Len(updated_edges) :
          updated_edges[i].dir = edge.dir /\ updated_edges[i].index = edge.index
    THEN UNCHANGED updated_edges
    ELSE updated_edges' = Append(updated_edges, edge)

\* Mutant of update_edge: a tag already in the dirty list is not added again.
update_edge_dedup(edge) ==
    IF \E i \in 1..Len(updated_edges) : updated_edges[i] = edge
    THEN UNCHANGED updated_edges
    ELSE updated_edges' = Append(updated_edges, edge)

\* UpdateList::update_edge: inner.updated_edges.push(edge).
update_edge(edge) ==
    updated_edges' = Append(updated_edges, edge)

\* Mutant of trigger_version: the baseline is not advanced.
trigger_version_keeps_baseline(t) == t

\* Mutant of trigger_version: the assignment is reversed.
trigger_version_reversed(t) ==
    [t EXCEPT !.version = t.prev_version]

\* Mutant of trigger_version: the baseline is moved past the version.
trigger_version_overshoots(t) ==
    [t EXCEPT !.prev_version = t.version + 1]

\* UpdateTrigger::trigger_version: prev_version = version.
trigger_version(t) ==
    [t EXCEPT !.prev_version = t.version]

\* Mutant of drain: the dirty list is consumed from its front.
RECURSIVE drain_from_front(_, _)
drain_from_front(edges, q) ==
    IF edges = <<>>
    THEN q
    ELSE drain_from_front(Tail(edges), <<Head(edges)>> \o q)

\* Mutant of drain: push_back in place of push_front.
RECURSIVE drain_push_back(_, _)
drain_push_back(edges, q) ==
    IF edges = <<>>
    THEN q
    ELSE drain_push_back(SubSeq(edges, 1, Len(edges) - 1), q \o <<edges[Len(edges)]>>)

\* while let Some(index) = updated_edges.pop() { queue.push_front(index) }
RECURSIVE drain(_, _)
drain(edges, q) ==
    IF edges = <<>>
    THEN q
    ELSE drain(SubSeq(edges, 1, Len(edges) - 1), <<edges[Len(edges)]>> \o q)

\* Mutant of trigger: the dirty list is copied to the queue, not popped.
trigger_keeps_edges ==
    /\ updated_triggers' =
           [i \in 1..Len(updated_triggers) |-> trigger_version(updated_triggers[i])]
    /\ queue' = drain(updated_edges, queue)
    /\ updated_edges' = updated_edges
    /\ cycle' = cycle + 1
    /\ hist' = [i \in 1..Len(hist) |-> <<>>]
    /\ UNCHANGED <<vec_cap, vec_buf, handles, calls, records, apart>>

\* UpdateList::trigger: re-arm every registered trigger, then drain the dirty
\* list into the queue.
trigger ==
    /\ updated_triggers' =
           [i \in 1..Len(updated_triggers) |-> trigger_version(updated_triggers[i])]
    /\ queue' = drain(updated_edges, queue)
    /\ updated_edges' = <<>>
    /\ cycle' = cycle + 1
    /\ hist' = [i \in 1..Len(hist) |-> <<>>]
    /\ UNCHANGED <<vec_cap, vec_buf, handles, calls, records, apart>>

\* Smallest capacity a Vec of 32-byte elements allocates.
MinNonZeroCap == 4

\* Vec::push on a full Vec grows it to max(2 * cap, len + 1, MinNonZeroCap).
grow_cap(cap, len) ==
    LET a == IF 2 * cap > len + 1 THEN 2 * cap ELSE len + 1
    IN  IF a > MinNonZeroCap THEN a ELSE MinNonZeroCap

\* Where the buffer is after a push: unchanged while len < cap; the first
\* allocation is a new buffer; growing a full buffer either extends it in
\* place or moves it, as the allocator decides.
push_buffers(cap, len, b) ==
    IF len < cap THEN {b}
    ELSE IF cap = 0 THEN {b + 1}
    ELSE {b, b + 1}

\* UpdateList::create_trigger: push a fresh trigger and return the address of
\* the last element.
create_trigger(edge_index) ==
    LET len == Len(updated_triggers) IN
    /\ \E b \in push_buffers(vec_cap, len, vec_buf) :
          /\ vec_buf' = b
          /\ handles' = handles \cup {Ptr(b, len + 1)}
    /\ vec_cap' = IF len < vec_cap THEN vec_cap ELSE grow_cap(vec_cap, len)
    /\ updated_triggers' = Append(updated_triggers, UpdateTrigger_create(edge_index))
    /\ hist' = Append(hist, <<>>)
    /\ UNCHANGED <<updated_edges, queue, cycle, calls, records, apart>>

\* A direct call of the public update_edge.
update_edge_call(dir, index) ==
    /\ update_edge(DirectedEdge(dir, index, 0, cycle))
    /\ records' = records + 1
    /\ UNCHANGED <<updated_triggers, vec_cap, vec_buf, handles, queue, cycle,
                   hist, calls, apart>>

(* ---------------------------------------------------------- UpdateTrigger *)
\* Mutant of update_input: the version == prev_version test is missing.
update_input_always_emits(self_) ==
    IF self_ = Null
    THEN /\ calls' = calls + 1
         /\ UNCHANGED <<records, apart>>
         /\ UNCHANGED <<updated_edges, updated_triggers, vec_cap, vec_buf,
                        handles, queue, cycle, hist>>
    ELSE /\ hist' = [hist EXCEPT ![self_.slot] = Append(@, "input")]
         /\ calls' = calls + 1
         /\ UNCHANGED <<records, apart>>
         /\ UNCHANGED <<vec_cap, vec_buf, handles, queue, cycle>>
         /\ updated_triggers' =
                [updated_triggers EXCEPT ![self_.slot].version = @ + 1]
         /\ update_edge(DirectedEdge("Target", updated_triggers[self_.slot].index,
                                     self_.slot, cycle))

\* Mutant of update_input: the is_null test is missing, and dereferencing the
\* null pointer ends the call abnormally.
update_input_deref_null(self_) ==
    /\ self_ # Null
    /\ hist' = [hist EXCEPT ![self_.slot] = Append(@, "input")]
    /\ calls' = calls + 1
    /\ UNCHANGED <<records, apart>>
    /\ UNCHANGED <<vec_cap, vec_buf, handles, queue, cycle>>
    /\ LET t == updated_triggers[self_.slot]
       IN  IF t.version = t.prev_version
           THEN /\ updated_triggers' =
                       [updated_triggers EXCEPT ![self_.slot].version = @ + 1]
                /\ update_edge(DirectedEdge("Target", t.index, self_.slot, cycle))
           ELSE UNCHANGED <<updated_triggers, updated_edges>>

\* UpdateTrigger::update_input(self_):
\*   null pointer: nothing happens;
\*   pointer to a live entry: if version == prev_version, version += 1 and
\*     update_edge(DirectedEdge::Target(index));
\*   pointer into a buffer the Vec has left: the dereference reads freed
\*     memory, so whether the stale copy tests as armed is not determined;
\*     its writes do not reach the live entry.
update_input(self_) ==
    IF self_ = Null
    THEN /\ calls' = calls + 1
         /\ UNCHANGED <<records, apart>>
         /\ UNCHANGED <<updated_edges, updated_triggers, vec_cap, vec_buf,
                        handles, queue, cycle, hist>>
    ELSE /\ hist' = [hist EXCEPT ![self_.slot] = Append(@, "input")]
         /\ calls' = calls + 1
         /\ UNCHANGED <<records, apart>>
         /\ UNCHANGED <<vec_cap, vec_buf, handles, queue, cycle>>
         /\ LET t == updated_triggers[self_.slot]
                edge == DirectedEdge("Target", t.index, self_.slot, cycle)
            IN  IF Live(self_)
                THEN IF t.version = t.prev_version
                     THEN /\ updated_triggers' =
                                 [updated_triggers EXCEPT ![self_.slot].version = @ + 1]
                          /\ update_edge(edge)
                     ELSE UNCHANGED <<updated_triggers, updated_edges>>
                ELSE /\ UNCHANGED updated_triggers
                     /\ \E armed \in BOOLEAN :
                           IF armed THEN update_edge(edge)
                           ELSE UNCHANGED updated_edges

\* Mutant of update_output: version is not incremented when the tag is emitted.
update_output_no_increment(self_) ==
    IF self_ = Null
    THEN /\ calls' = calls + 1
         /\ UNCHANGED <<records, apart>>
         /\ UNCHANGED <<updated_edges, updated_triggers, vec_cap, vec_buf,
                        handles, queue, cycle, hist>>
    ELSE /\ hist' = [hist EXCEPT ![self_.slot] = Append(@, "output")]
         /\ calls' = calls + 1
         /\ UNCHANGED <<records, apart>>
         /\ UNCHANGED <<vec_cap, vec_buf, handles, queue, cycle, updated_triggers>>
         /\ LET t == updated_triggers[self_.slot]
            IN  IF t.version = t.prev_version
                THEN update_edge(DirectedEdge("Source", t.index, self_.slot, cycle))
                ELSE UNCHANGED updated_edges

\* Mutant of update_output: the tag is built with the wrong variant.
update_output_emits_target(self_) ==
    IF self_ = Null
    THEN /\ calls' = calls + 1
         /\ UNCHANGED <<records, apart>>
         /\ UNCHANGED <<updated_edges, updated_triggers, vec_cap, vec_buf,
                        handles, queue, cycle, hist>>
    ELSE /\ hist' = [hist EXCEPT ![self_.slot] = Append(@, "output")]
         /\ calls' = calls + 1
         /\ UNCHANGED <<records, apart>>
         /\ UNCHANGED <<vec_cap, vec_buf, handles, queue, cycle>>
         /\ LET t == updated_triggers[self_.slot]
            IN  IF t.version = t.prev_version
                THEN /\ updated_triggers' =
                            [updated_triggers EXCEPT ![self_.slot].version = @ + 1]
                     /\ update_edge(DirectedEdge("Target", t.index, self_.slot, cycle))
                ELSE UNCHANGED <<updated_triggers, updated_edges>>

\* UpdateTrigger::update_output(self_): the same, emitting
\* DirectedEdge::Source(index).
update_output(self_) ==
    IF self_ = Null
    THEN /\ calls' = calls + 1
         /\ UNCHANGED <<records, apart>>
         /\ UNCHANGED <<updated_edges, updated_triggers, vec_cap, vec_buf,
                        handles, queue, cycle, hist>>
    ELSE /\ hist' = [hist EXCEPT ![self_.slot] = Append(@, "output")]
         /\ calls' = calls + 1
         /\ UNCHANGED <<records, apart>>
         /\ UNCHANGED <<vec_cap, vec_buf, handles, queue, cycle>>
         /\ LET t == updated_triggers[self_.slot]
                edge == DirectedEdge("Source", t.index, self_.slot, cycle)
            IN  IF Live(self_)
                THEN IF t.version = t.prev_version
                     THEN /\ updated_triggers' =
                                 [updated_triggers EXCEPT ![self_.slot].version = @ + 1]
                          /\ update_edge(edge)
                     ELSE UNCHANGED <<updated_triggers, updated_edges>>
                ELSE /\ UNCHANGED updated_triggers
                     /\ \E armed \in BOOLEAN :
                           IF armed THEN update_edge(edge)
                           ELSE UNCHANGED updated_edges

\* The two signals and the variant of the tag each emits.
Ops == {"input", "output"}
TagDir(op) == IF op = "input" THEN "Target" ELSE "Source"

(* ------------------------------------------------------ resolving a tag *)
\* The scheduler resolves the i-th queued tag against the graph:
\* tag.get_source(&graph) and tag.get_target(&graph).
resolve(i) ==
    /\ resolved' = [tag    |-> queue[i],
                    source |-> get_source(queue[i], graph),
                    target |-> get_target(queue[i], graph)]
    /\ UNCHANGED <<updated_edges, updated_triggers, vec_cap, vec_buf, handles,
                   queue, cycle, hist, calls, records, pc, emitted, detached,
                   graph>>

\* The owner of the graph removes an edge (StableGraph::remove_edge); the
\* other edges keep their indices and endpoints.
remove_edge(e) ==
    /\ e \in DOMAIN graph
    /\ graph' = [x \in DOMAIN graph \ {e} |-> graph[x]]
    /\ UNCHANGED <<updated_edges, updated_triggers, vec_cap, vec_buf, handles,
                   queue, cycle, hist, calls, records, pc, emitted, detached,
                   resolved>>

(* ------------------------------------ triggers built outside the registry *)
\* UpdateTrigger::create is public: a caller builds a trigger for an edge
\* with the shared UpdateList and keeps it; nothing is pushed on
\* updated_triggers.
create_detached(index) ==
    /\ detached' = Append(detached, UpdateTrigger_create(index))
    /\ UNCHANGED <<updated_edges, updated_triggers, vec_cap, vec_buf, handles,
                   queue, cycle, hist, calls, records, pc, emitted, graph,
                   resolved>>

\* update_input / update_output through a pointer to the i-th such trigger:
\* if version == prev_version, version += 1 and update_edge on the shared
\* list. The tag's history field names the trigger as -i.
signal_detached(i, op) ==
    /\ calls' = calls + 1
    /\ LET t == detached[i]
       IN  IF t.version = t.prev_version
           THEN /\ detached' = [detached EXCEPT ![i].version = @ + 1]
                /\ update_edge(DirectedEdge(TagDir(op), t.index, 0 - i, cycle))
           ELSE UNCHANGED <<detached, updated_edges>>
    /\ UNCHANGED <<updated_triggers, vec_cap, vec_buf, handles, queue, cycle,
                   hist, records, pc, emitted, graph, resolved>>

(* ------------------------------------------- the calls, statement by statement *)
\* What another thread can observe of a call on a shared UpdateList: the
\* statements of update_input / update_output, and of the Vec::push inside
\* update_edge, as separate steps. pc[th].at says which comes next:
\*   "armed"        the version == prev_version test passed; version += 1 next
\*   "update_edge"  update_edge(edge) is called next
\*   "push"         push has read the Vec's len; the write of slot len and
\*                  len = len + 1 comes next
Range(s) == {s[i] : i \in 1..Len(s)}

\* Mutant of signal_test: the test and the increment are one step.
signal_test_and_set(th, self_, op) ==
    /\ pc[th].at = "idle"
    /\ Live(self_)
    /\ hist' = [hist EXCEPT ![self_.slot] = Append(@, op)]
    /\ calls' = calls + 1
    /\ LET t == updated_triggers[self_.slot]
           edge == DirectedEdge(TagDir(op), t.index, self_.slot, cycle)
       IN  IF t.version = t.prev_version
           THEN /\ pc' = [pc EXCEPT ![th] =
                            [at |-> "update_edge", slot |-> self_.slot,
                             edge |-> edge, seen |-> t.version, len |-> 0]]
                /\ updated_triggers' =
                       [updated_triggers EXCEPT ![self_.slot].version = @ + 1]
           ELSE UNCHANGED <<pc, updated_triggers>>
    /\ UNCHANGED <<updated_edges, vec_cap, vec_buf, handles,
                   queue, cycle, records, emitted, detached, graph, resolved>>

\* update_input / update_output up to and including
\* `if self_.version == self_.prev_version`, on a live pointer.
signal_test(th, self_, op) ==
    /\ pc[th].at = "idle"
    /\ Live(self_)
    /\ hist' = [hist EXCEPT ![self_.slot] = Append(@, op)]
    /\ calls' = calls + 1
    /\ LET t == updated_triggers[self_.slot]
           edge == DirectedEdge(TagDir(op), t.index, self_.slot, cycle)
       IN  IF t.version = t.prev_version
           THEN pc' = [pc EXCEPT ![th] =
                          [at |-> "armed", slot |-> self_.slot,
                           edge |-> edge, seen |-> t.version, len |-> 0]]
           ELSE UNCHANGED pc
    /\ UNCHANGED <<updated_edges, updated_triggers, vec_cap, vec_buf, handles,
                   queue, cycle, records, emitted, detached, graph, resolved>>

\* `self_.version += 1`: the store writes one more than the value the test
\* loaded or one more than the value now in memory, as the compiler arranged
\* the loads.
signal_increment(th) ==
    /\ pc[th].at = "armed"
    /\ \E v \in {pc[th].seen + 1, updated_triggers[pc[th].slot].version + 1} :
          updated_triggers' =
              [updated_triggers EXCEPT ![pc[th].slot].version = v]
    /\ pc' = [pc EXCEPT ![th].at = "update_edge"]
    /\ UNCHANGED <<updated_edges, vec_cap, vec_buf, handles, queue, cycle,
                   hist, calls, records, emitted, detached, graph, resolved>>

\* A thread starts a direct call of update_edge.
update_edge_enter(th, dir, index) ==
    /\ pc[th].at = "idle"
    /\ pc' = [pc EXCEPT ![th] =
                 [at |-> "update_edge", slot |-> 0,
                  edge |-> DirectedEdge(dir, index, 0, cycle),
                  seen |-> 0, len |-> 0]]
    /\ records' = records + 1
    /\ UNCHANGED <<updated_edges, updated_triggers, vec_cap, vec_buf, handles,
                   queue, cycle, hist, calls, emitted, detached, graph,
                   resolved>>

\* update_edge is entered and Vec::push reads len.
push_len(th) ==
    /\ pc[th].at = "update_edge"
    /\ pc' = [pc EXCEPT ![th].at = "push", ![th].len = Len(updated_edges)]
    /\ emitted' = Append(emitted, pc[th].edge)
    /\ UNCHANGED <<updated_edges, updated_triggers, vec_cap, vec_buf, handles,
                   queue, cycle, hist, calls, records, detached, graph,
                   resolved>>

\* Mutant of push_write: the element is written but len is not advanced.
push_write_keeps_len(th) ==
    /\ pc[th].at = "push"
    /\ pc' = [pc EXCEPT ![th] = Idle]
    /\ UNCHANGED <<updated_edges, updated_triggers, vec_cap, vec_buf, handles,
                   queue, cycle, hist, calls, records, emitted, detached,
                   graph, resolved>>

\* Vec::push writes the element into slot len and stores len + 1, with the
\* len it read. Slots between the Vec's present len and the len read hold
\* what earlier pushes left in that memory: some tags handed to update_edge.
push_write(th) ==
    LET n   == pc[th].len
        cur == Len(updated_edges)
    IN  /\ pc[th].at = "push"
        /\ IF n <= cur
           THEN updated_edges' = Append(SubSeq(updated_edges, 1, n), pc[th].edge)
           ELSE \E stale \in [(cur + 1)..n -> Range(emitted)] :
                   updated_edges' =
                       [i \in 1..(n + 1) |->
                           IF i <= cur THEN updated_edges[i]
                           ELSE IF i <= n THEN stale[i]
                           ELSE pc[th].edge]
        /\ pc' = [pc EXCEPT ![th] = Idle]
        /\ UNCHANGED <<updated_triggers, vec_cap, vec_buf, handles, queue,
                       cycle, hist, calls, records, emitted, detached, graph,
                       resolved>>

(* --------------------------------------------------------- specifications *)
\* The behaviour has calls left in its budget and a cycle to make them in.
MayRecord(budget) == calls + records < budget /\ cycle < MaxCycle

\* Spec: single-threaded (or mutex-guarded) use, every operation one step;
\* triggers are registered for any edge, at any time, and signalled through
\* any issued handle or a null one; update_edge is also called directly.
Next ==
    \/ \E e \in Edges :
          Len(updated_triggers) < MaxTriggers /\ create_trigger(e)
    \/ \E h \in handles \cup {Null} : MayRecord(MaxCalls) /\ update_input(h)
    \/ \E h \in handles \cup {Null} : MayRecord(MaxCalls) /\ update_output(h)
    \/ \E d \in Dirs, e \in Edges : MayRecord(MaxCalls) /\ update_edge_call(d, e)
    \/ cycle < MaxCycle /\ trigger

Spec == Init /\ [][Next]_vars

\* The edge the graph builder wires the next port to: the k-th port to edge k.
WireEdge == Len(updated_triggers) + 1

\* SpecOrder: the same operations on a wider graph, each trigger signalled at
\* most once per cycle, so that a cycle's batch holds several edges.
NextOrder ==
    \/ Len(updated_triggers) < OrderTriggers /\ create_trigger(WireEdge)
    \/ \E h \in handles :
          MayRecord(OrderCalls) /\ hist[h.slot] = <<>> /\ update_input(h)
    \/ \E h \in handles :
          MayRecord(OrderCalls) /\ hist[h.slot] = <<>> /\ update_output(h)
    \/ cycle < MaxCycle /\ trigger

SpecOrder == Init /\ [][NextOrder]_vars

\* SpecRegistry: a registry that outgrows its first allocation, with ports
\* signalling through the handles they were given.
NextRegistry ==
    \/ Len(updated_triggers) < MaxRegistry /\ create_trigger(WireEdge)
    \/ \E h \in handles : calls < RegistryCalls /\ update_input(h)
    \/ \E h \in handles : calls < RegistryCalls /\ update_output(h)
    \/ cycle < RegistryCycle /\ trigger

SpecRegistry == Init /\ [][NextRegistry]_vars

\* No thread is inside a call.
AllIdle == \A th \in Threads : pc[th].at = "idle"

\* No thread other than th is inside a call: th holds the mutex the callers
\* share, or can take it.
Exclusive(th) == \A o \in Threads \ {th} : pc[o].at = "idle"

MayCall == calls + records < ThreadCalls /\ cycle < ThreadCycle

\* SpecLocked: threads signal and record, a scheduler calls trigger(), and
\* every call runs from its first statement to its last under one mutex.
NextLocked ==
    \/ AllIdle /\ Len(updated_triggers) < ThreadTriggers /\ create_trigger(WireEdge)
    \/ \E th \in Threads, h \in handles, op \in Ops :
          AllIdle /\ MayCall /\ signal_test(th, h, op)
    \/ \E th \in Threads : Exclusive(th) /\ signal_increment(th)
    \/ \E th \in Threads, d \in Dirs, e \in Edges :
          AllIdle /\ MayCall /\ update_edge_enter(th, d, e)
    \/ \E th \in Threads : Exclusive(th) /\ push_len(th)
    \/ \E th \in Threads : Exclusive(th) /\ push_write(th)
    \/ AllIdle /\ cycle < ThreadCycle /\ trigger

SpecLocked == Init /\ [][NextLocked]_vars

\* SpecRace: threads signalling within one cycle with nothing excluding one
\* call from another; triggers are registered, and trigger() runs, while no
\* thread is inside a call.
NextRace ==
    \/ AllIdle /\ Len(updated_triggers) < ThreadTriggers /\ create_trigger(WireEdge)
    \/ \E th \in Threads, h \in handles, op \in Ops :
          calls < RaceCalls /\ cycle = 0 /\ signal_test(th, h, op)
    \/ \E th \in Threads : signal_increment(th)
    \/ \E th \in Threads : push_len(th)
    \/ \E th \in Threads : push_write(th)
    \/ AllIdle /\ cycle = 0 /\ trigger

SpecRace == Init /\ [][NextRace]_vars

\* SpecDetached: single-threaded use in which callers also build triggers
\* with UpdateTrigger::create and signal through them.
NextDetached ==
    \/ \E e \in Edges : Len(updated_triggers) < MaxTriggers /\ create_trigger(e)
    \/ \E e \in Edges : Len(detached) < MaxDetached /\ create_detached(e)
    \/ \E h \in handles : MayRecord(MaxCalls) /\ update_input(h)
    \/ \E h \in handles : MayRecord(MaxCalls) /\ update_output(h)
    \/ \E i \in 1..Len(detached), op \in Ops :
          MayRecord(MaxCalls) /\ signal_detached(i, op)
    \/ cycle < MaxCycle /\ trigger

SpecDetached == Init /\ [][NextDetached]_vars

\* SpecResolve: beside any graph that has every edge, tags of either variant
\* are recorded for any edge, trigger() queues them, and the scheduler
\* resolves queued tags.
InitResolve == InitList /\ graph \in GraphsWith(Edges)

NextResolve ==
    \/ \E d \in Dirs, e \in Edges :
          records < ResolveCalls /\ cycle = 0 /\ update_edge_call(d, e)
    \/ cycle = 0 /\ trigger
    \/ \E i \in 1..Len(queue) : resolve(i)

SpecResolve == InitResolve /\ [][NextResolve]_vars

\* SpecStale: as SpecResolve, with edges removed from the graph at any time,
\* also after tags of them were recorded or queued.
NextStale ==
    \/ \E d \in Dirs, e \in Edges :
          records < ResolveCalls /\ cycle = 0 /\ update_edge_call(d, e)
    \/ cycle = 0 /\ trigger
    \/ \E e \in Edges : remove_edge(e)
    \/ \E i \in 1..Len(queue) : resolve(i)

SpecStale == InitResolve /\ [][NextStale]_vars

(* ------------------------------------------------------------ properties *)
Slots == 1..Len(updated_triggers)

\* Positions of the dirty list holding a tag that slot t's signal emitted.
TagsBy(t) == {i \in 1..Len(updated_edges) : updated_edges[i].by = t}

\* The signals sent to slot t this cycle were all the same operation.
SameSignal(t) == \A i \in 1..Len(hist[t]) : hist[t][i] = hist[t][1]

\* Slot t emitted a tag in the cycle before the current one.
FiredInPreviousCycle(t) ==
    \E i \in 1..Len(queue) : queue[i].by = t /\ queue[i].cyc = cycle - 1

\* The tags a trigger() step put on the queue, front first.
Batch == SubSeq(queue', 1, Len(queue') - Len(queue))

\* C1 (debounce): a registered trigger that received the same signal
\* operation N >= 1 times in the current cycle has exactly one tag in the
\* dirty list, and that tag carries the trigger's edge.
C1_Debounce ==
    \A t \in Slots :
        (hist[t] # <<>> /\ SameSignal(t)) =>
            /\ Cardinality(TagsBy(t)) = 1
            /\ \A i \in TagsBy(t) :
                  updated_edges[i].index = updated_triggers[t].index

C1_Witness ==
    \E t \in Slots :
        /\ Len(hist[t]) >= 2 /\ SameSignal(t)
        /\ Cardinality(TagsBy(t)) = 1

\* C2 (at most one emission per trigger per cycle): whatever mixture of
\* update_input and update_output a trigger received this cycle, the dirty
\* list holds at most one tag of it; it holds one exactly when the trigger
\* was signalled, and the first call decided its direction.
C2_OneEmissionPerCycle ==
    \A t \in Slots :
        /\ Cardinality(TagsBy(t)) <= 1
        /\ (hist[t] = <<>>) <=> (TagsBy(t) = {})
        /\ \A i \in TagsBy(t) :
              /\ updated_edges[i].cyc = cycle
              /\ updated_edges[i].dir =
                    (IF hist[t][1] = "input" THEN "Target" ELSE "Source")

C2_Witness ==
    \E t \in Slots :
        /\ \E i, j \in 1..Len(hist[t]) : hist[t][i] = "input" /\ hist[t][j] = "output"
        /\ Cardinality(TagsBy(t)) = 1

\* C3 (re-arming): trigger() leaves every trigger that fired in the cycle it
\* ends with version = prev_version; and a trigger that fired in the previous
\* cycle and was signalled any number of times in the current one has
\* recorded exactly one further tag.
C3_Rearming ==
    /\ [][cycle' # cycle =>
            \A t \in Slots :
                TagsBy(t) # {} =>
                    updated_triggers'[t].version = updated_triggers'[t].prev_version]_vars
    /\ [](\A t \in Slots :
            (FiredInPreviousCycle(t) /\ hist[t] # <<>>) =>
                /\ Cardinality(TagsBy(t)) = 1
                /\ updated_triggers[t].version = updated_triggers[t].prev_version + 1)

C3_Witness ==
    \E t \in Slots :
        /\ FiredInPreviousCycle(t)
        /\ Len(hist[t]) >= 2
        /\ Cardinality(TagsBy(t)) = 1

\* C4 (cycle isolation): the dirty list only ever holds tags of the current
\* cycle; trigger() empties it and puts on the queue exactly the tags of the
\* cycle it ends, so a tag of cycle K is not delivered again at the end of
\* cycle K + 1, and no trigger has two queued tags of one cycle.
C4_CycleIsolation ==
    /\ [](\A i \in 1..Len(updated_edges) : updated_edges[i].cyc = cycle)
    /\ [][cycle' # cycle =>
            /\ updated_edges' = <<>>
            /\ Len(Batch) = Len(updated_edges)
            /\ \A i \in 1..Len(Batch) : Batch[i].cyc = cycle
            /\ \A i \in 1..Len(updated_edges) :
                  \E j \in 1..Len(Batch) : Batch[j] = updated_edges[i]]_vars
    /\ [](\A i, j \in 1..Len(queue) :
            (queue[i].by # 0 /\ queue[i].by = queue[j].by
                /\ queue[i].cyc = queue[j].cyc) => i = j)

\* A trigger fired in cycle 0 and was not signalled in cycle 1: after both
\* cycles ended, the queue holds its cycle-0 tag and nothing of it from
\* cycle 1, next to a trigger that was signalled again.
C4_Witness ==
    /\ cycle = 2
    /\ \E i \in 1..Len(queue) :
          /\ queue[i].cyc = 0
          /\ \A j \in 1..Len(queue) : queue[j].by = queue[i].by => queue[j].cyc = 0
    /\ \E i, j \in 1..Len(queue) :
          queue[i].by = queue[j].by /\ queue[i].cyc = 0 /\ queue[j].cyc = 1

\* C5 as the specification states it: after trigger() the most recently
\* recorded tag of the cycle is at the front of the queue, the batch reading
\* e3, e2, e1 for edges signalled in the order e1, e2, e3.
C5_MostRecentFirst ==
    [][cycle' # cycle =>
          LET n == Len(updated_edges)
          IN  /\ Len(queue') = n + Len(queue)
              /\ \A i \in 1..n : queue'[i] = updated_edges[n + 1 - i]]_vars

\* C5 (drain ordering, amended): after trigger() the earliest recorded tag of
\* the cycle is at the front of the queue; the batch keeps the order of
\* recording (e1, e2, e3) and stands ahead of the items queued before.
C5_EarliestFirst ==
    [][cycle' # cycle =>
          LET n == Len(updated_edges)
          IN  /\ Len(queue') = n + Len(queue)
              /\ \A i \in 1..n : queue'[i] = updated_edges[i]]_vars

\* Edges 1, 2, 3 were signalled in cycle 1 by slots 1, 2, 3 and a tag of
\* cycle 0 was already queued: the queue reads e1, e2, e3, then the old tag.
C5_Witness ==
    /\ cycle = 2
    /\ Len(queue) >= 4
    /\ \A i \in 1..3 :
          queue[i].cyc = 1 /\ queue[i].index = i /\ queue[i].by = i
    /\ queue[4].cyc = 0

\* C6 (batch placement): trigger() puts the cycle's tags, all of them and
\* nothing else, on the first places of the queue; the items queued before
\* follow in their old order, none removed; so the queue is ordered by cycle,
\* later cycles first.
C6_BatchPlacement ==
    /\ [][cycle' # cycle =>
            LET n == Len(updated_edges)
            IN  /\ Len(queue') = n + Len(queue)
                /\ {queue'[i] : i \in 1..n} = {updated_edges[i] : i \in 1..n}
                /\ \A k \in 1..Len(queue) : queue'[n + k] = queue[k]]_vars
    /\ [](\A i, j \in 1..Len(queue) : i < j => queue[i].cyc >= queue[j].cyc)

\* Two trigger() calls, each with a batch of two tags: the later batch stands
\* before the earlier one.
C6_Witness ==
    /\ cycle = 2
    /\ Len(queue) = 4
    /\ queue[1].cyc = 1 /\ queue[2].cyc = 1
    /\ queue[3].cyc = 0 /\ queue[4].cyc = 0

\* C7 (direction correctness): in every graph holding edge e from a to b, the
\* tag a trigger of e emitted through update_input resolves with get_target
\* to a, and the tag emitted through update_output resolves to b.
C7_DirectionCorrectness ==
    \A t \in Slots : \A i \in TagsBy(t) :
        LET e == updated_triggers[t].index
            tag == updated_edges[i]
        IN  \A g \in GraphsWith({e}) :
                /\ (hist[t] # <<>> /\ hist[t][1] = "input") =>
                       get_target(tag, g) = g[e][1]
                /\ (hist[t] # <<>> /\ hist[t][1] = "output") =>
                       get_target(tag, g) = g[e][2]

\* Two triggers of one edge, one signalled on the input side and one on the
\* output side, both tags recorded.
C7_Witness ==
    \E t1, t2 \in Slots :
        /\ updated_triggers[t1].index = updated_triggers[t2].index
        /\ hist[t1] # <<>> /\ hist[t1][1] = "input" /\ TagsBy(t1) # {}
        /\ hist[t2] # <<>> /\ hist[t2][1] = "output" /\ TagsBy(t2) # {}

\* The only signals of the cycle were update_output on t1 and update_input
\* on t2, and update_edge was not called directly.
OnlyOutputInput(t1, t2) ==
    /\ t1 # t2
    /\ \A i \in 1..Len(updated_edges) : updated_edges[i].by # 0
    /\ hist[t1] # <<>> /\ \A i \in 1..Len(hist[t1]) : hist[t1][i] = "output"
    /\ hist[t2] # <<>> /\ \A i \in 1..Len(hist[t2]) : hist[t2][i] = "input"
    /\ \A t \in Slots \ {t1, t2} : hist[t] = <<>>

\* C8 (end to end): when the only records of a cycle are output-produced on
\* a trigger of e1 and input-consumed on a trigger of e2, trigger() delivers
\* exactly two tags, one of each trigger; in every graph where e1 = a -> b and
\* e2 = b -> c both resolve with get_target to b, and with get_source to a
\* and to c.
C8_EndToEnd ==
    [][cycle' # cycle =>
          \A t1, t2 \in Slots :
              OnlyOutputInput(t1, t2) =>
                  LET e1 == updated_triggers[t1].index
                      e2 == updated_triggers[t2].index
                  IN  /\ Len(Batch) = 2
                      /\ {Batch[i].by : i \in 1..Len(Batch)} = {t1, t2}
                      /\ \A g \in GraphsWith({e1, e2}) :
                            g[e1][2] = g[e2][1] =>
                                \A i \in 1..Len(Batch) :
                                    /\ get_target(Batch[i], g) = g[e1][2]
                                    /\ Batch[i].by = t1 =>
                                           get_source(Batch[i], g) = g[e1][1]
                                    /\ Batch[i].by = t2 =>
                                           get_source(Batch[i], g) = g[e2][2]]_vars

\* The first cycle ended with exactly the two tags of the scenario queued:
\* Source(e1) from one trigger and Target(e2) from another, e1 # e2.
C8_Witness ==
    /\ cycle = 1
    /\ Len(queue) = 2
    /\ \E i, j \in 1..2 :
          /\ queue[i].dir = "Source" /\ queue[j].dir = "Target"
          /\ queue[i].by # queue[j].by
          /\ queue[i].index # queue[j].index

\* C9 (no-op on an unregistered port): a signal through a null handle, the
\* only step that counts a call without any slot receiving it, changes
\* neither the dirty list nor any trigger, the registry or the queue; and in
\* every state both signals return normally when given a null handle.
C9_NullHandleNoOp ==
    /\ [][(calls' # calls /\ hist' = hist) =>
            UNCHANGED <<updated_edges, updated_triggers, vec_cap, vec_buf,
                        handles, queue, cycle>>]_vars
    /\ [](ENABLED update_input(Null) /\ ENABLED update_output(Null))

\* Two null-handle calls and one signal on a registered trigger, whose tag
\* is the only one pending.
C9_Witness ==
    /\ calls >= 3
    /\ \E t \in Slots : Len(hist[t]) = 1 /\ TagsBy(t) # {}
    /\ \A t \in Slots : Len(hist[t]) <= 1
    /\ Cardinality({t \in Slots : hist[t] # <<>>}) = 1
    /\ cycle = 0

\* C10 as the specification states it: every handle create_trigger has
\* returned still addresses its entry in the registry's current storage.
C10_HandlesStayValid ==
    \A h \in handles : Live(h)

\* Slot t's trigger is armed: its version equals its baseline.
Armed(t) == updated_triggers[t].version = updated_triggers[t].prev_version

\* The step is a signal received by slot t.
SignalOn(t) == Len(hist'[t]) = Len(hist[t]) + 1

\* C12 (trigger() re-arms all and drains all): a trigger() step leaves every
\* registered trigger, fired or not, with prev_version = version and its
\* version and edge as they were, leaves the dirty list empty, and grows the
\* queue by exactly the number of tags the dirty list held.
C12_RollRearmsAll ==
    [][cycle' # cycle =>
          /\ Len(updated_triggers') = Len(updated_triggers)
          /\ \A t \in Slots :
                /\ updated_triggers'[t].prev_version = updated_triggers'[t].version
                /\ updated_triggers'[t].version = updated_triggers[t].version
                /\ updated_triggers'[t].index = updated_triggers[t].index
          /\ updated_edges' = <<>>
          /\ Len(queue') = Len(queue) + Len(updated_edges)]_vars

\* The second trigger() has just run over a trigger that fired in the cycle
\* it ended and another that did not fire in that cycle.
C12_Witness ==
    /\ cycle = 2
    /\ updated_edges = <<>>
    /\ \E t1, t2 \in Slots :
          /\ FiredInPreviousCycle(t1)
          /\ ~FiredInPreviousCycle(t2)
          /\ Armed(t1) /\ Armed(t2)
          /\ updated_triggers[t1].version = 1
          /\ updated_triggers[t2].version = 1

\* C14 (create_trigger): a step that changes the size of the registry is a
\* create_trigger(e) that appended exactly one trigger, bound to e with
\* version = prev_version = 0, and changed no other trigger, the dirty list
\* or the queue; a trigger that has never fired has received no signal in the
\* current cycle, so a new trigger's first signal fires; and every pending tag
\* of a trigger carries the edge the trigger was created with.
C14_CreateTrigger ==
    /\ [][Len(updated_triggers') # Len(updated_triggers) =>
            \E e \in Edges :
                /\ create_trigger(e)
                /\ updated_triggers' =
                       Append(updated_triggers,
                              [index |-> e, version |-> 0, prev_version |-> 0])
                /\ UNCHANGED <<updated_edges, queue>>]_vars
    /\ [](\A t \in Slots :
            /\ updated_triggers[t].version = 0 =>
                  (updated_triggers[t].prev_version = 0 /\ hist[t] = <<>>)
            /\ \A i \in TagsBy(t) :
                  updated_edges[i].index = updated_triggers[t].index)

\* A second trigger was created for another edge while the first had fired,
\* and its own first signal has put a tag of its edge on the dirty list.
C14_Witness ==
    /\ Len(updated_triggers) = 2
    /\ updated_triggers[1].index # updated_triggers[2].index
    /\ updated_triggers[1].version = 2
    /\ Len(hist[2]) = 1
    /\ \E i \in TagsBy(2) : updated_edges[i].index = updated_triggers[2].index

\* C15 (version never behind the baseline): every registered trigger has
\* version >= prev_version.
C15_VersionNotBehind ==
    \A t \in Slots :
        updated_triggers[t].version >= updated_triggers[t].prev_version

\* One trigger has fired and waits to be re-armed while another was re-armed
\* after firing.
C15_Witness ==
    \E t1, t2 \in Slots :
        /\ updated_triggers[t1].version > updated_triggers[t1].prev_version
        /\ updated_triggers[t2].version = updated_triggers[t2].prev_version
        /\ updated_triggers[t2].prev_version >= 1

\* C16 (effect of a signal on an armed trigger): a signal received by an
\* armed trigger adds one to that trigger's version and nothing else in the
\* registry, and appends one tag at the end of the dirty list, carrying the
\* trigger's edge: Target for update_input, Source for update_output.
C16_ArmedSignal ==
    [][\A t \in Slots :
          (SignalOn(t) /\ Armed(t)) =>
              LET op == hist'[t][Len(hist'[t])]
                  n  == Len(updated_edges)
              IN  /\ updated_triggers' =
                         [updated_triggers EXCEPT ![t].version = @ + 1]
                  /\ Len(updated_edges') = n + 1
                  /\ SubSeq(updated_edges', 1, n) = updated_edges
                  /\ updated_edges'[n + 1].index = updated_triggers[t].index
                  /\ updated_edges'[n + 1].dir =
                         (IF op = "input" THEN "Target" ELSE "Source")
                  /\ UNCHANGED queue]_vars

\* The dirty list ends with the Source tag of one trigger, recorded after the
\* Target tag of another.
C16_Witness ==
    /\ Len(updated_edges) = 2
    /\ updated_edges[1].dir = "Target" /\ updated_edges[2].dir = "Source"
    /\ updated_edges[1].by # 0 /\ updated_edges[2].by # 0
    /\ updated_edges[1].by # updated_edges[2].by

\* C17 (a signal on a trigger that is not armed): the step changes no
\* trigger, neither the dirty list nor the queue, nor the registry's storage.
C17_UnarmedSignalNoOp ==
    [][\A t \in Slots :
          (SignalOn(t) /\ ~Armed(t)) =>
              UNCHANGED <<updated_triggers, updated_edges, queue, handles,
                          vec_cap, vec_buf>>]_vars

\* A trigger that fired received two further signals, one of each kind, and
\* still has its one tag.
C17_Witness ==
    \E t \in Slots :
        /\ Len(hist[t]) = 3
        /\ hist[t][2] # hist[t][3]
        /\ ~Armed(t)
        /\ Cardinality(TagsBy(t)) = 1
        /\ Len(updated_edges) = 1

\* Tags of direct update_edge calls, pending or queued.
DirectCalls ==
    Cardinality({i \in 1..Len(updated_edges) : updated_edges[i].by = 0})
    + Cardinality({i \in 1..Len(queue) : queue[i].by = 0})

\* C13 (update_edge always appends): every direct update_edge call adds one
\* entry, the tag it was given, at the end of the dirty list, whatever the
\* list already holds, and changes no trigger; so k calls leave k entries,
\* and each of them is on the queue once trigger() has run.
C13_RecordAppends ==
    /\ [][records' # records =>
            LET n == Len(updated_edges)
            IN  /\ Len(updated_edges') = n + 1
                /\ SubSeq(updated_edges', 1, n) = updated_edges
                /\ \E d \in Dirs, e \in Edges :
                      /\ update_edge_call(d, e)
                      /\ updated_edges'[n + 1] = DirectedEdge(d, e, 0, cycle)
                /\ UNCHANGED <<updated_triggers, queue>>]_vars
    /\ [](DirectCalls = records)
    /\ [](updated_edges = <<>> =>
            Cardinality({i \in 1..Len(queue) : queue[i].by = 0}) = records)

\* Three direct calls with one and the same tag in the first cycle, and
\* trigger() has put all three on the queue.
C13_Witness ==
    /\ records = 3
    /\ cycle = 1
    /\ updated_edges = <<>>
    /\ Len(queue) = 3
    /\ queue[1] = queue[2] /\ queue[2] = queue[3]
    /\ queue[1].by = 0

\* How many times x occurs in the sequence s.
Count(s, x) == Cardinality({i \in 1..Len(s) : s[i] = x})

\* Every tag on the queue or waiting in the dirty list.
Delivered == queue \o updated_edges

\* C11 (no lost or duplicated tag under the exclusivity contract): in
\* SpecLocked, whenever no call is in progress, every tag occurs among the
\* queued and pending tags exactly as often as it was handed to update_edge,
\* a tag of a trigger exactly once; each trigger has emitted as many tags as
\* armed signals raised its version; and once trigger() has emptied the dirty
\* list the queue alone holds them all.
C11_NoTagLostOrDuplicated ==
    AllIdle =>
        /\ \A x \in Range(emitted) \cup Range(Delivered) :
              /\ Count(Delivered, x) = Count(emitted, x)
              /\ x.by # 0 => Count(emitted, x) = 1
        /\ \A t \in Slots :
              Cardinality({i \in 1..Len(emitted) : emitted[i].by = t})
                  = updated_triggers[t].version
        /\ Cardinality({i \in 1..Len(emitted) : emitted[i].by = 0}) = records
        /\ updated_edges = <<>> => Len(queue) = Len(emitted)

\* Three signals in two cycles each emitted a tag, one trigger firing in both
\* cycles, and the second trigger() has put the last of the three tags in
\* front of the first cycle's.
C11_Witness ==
    /\ AllIdle
    /\ cycle = 2
    /\ updated_edges = <<>>
    /\ Len(queue) = 3
    /\ calls = 3
    /\ \E t \in Slots : updated_triggers[t].version = 2
    /\ \A i \in 1..3 : queue[i].by # 0
    /\ queue[1].cyc = 1 /\ queue[2].cyc = 0

\* C19 (the calls are not synchronised internally): in SpecRace the step of a
\* signal that tests version == prev_version changes neither a trigger nor
\* the dirty list, the increment and the record being later steps; and the
\* dirty list holds only tags that were handed to update_edge, never more of
\* them than were handed over.
C19_SeparateSteps ==
    /\ [][\A t \in Slots :
            SignalOn(t) => UNCHANGED <<updated_triggers, updated_edges>>]_vars
    /\ [](/\ \A i \in 1..Len(updated_edges) : updated_edges[i] \in Range(emitted)
          /\ Len(updated_edges) <= Len(emitted))

\* Two threads passed the test on one armed trigger and the dirty list holds
\* two tags of it from one cycle; and an append was lost: a second trigger
\* fired in the same cycle, no call is in progress, and no tag of it is
\* pending.
C19_Witness ==
    /\ AllIdle
    /\ cycle = 0
    /\ \E t \in Slots :
          \E i, j \in TagsBy(t) :
              i # j /\ updated_edges[i].cyc = updated_edges[j].cyc
    /\ \E t \in Slots :
          /\ updated_triggers[t].version > updated_triggers[t].prev_version
          /\ TagsBy(t) = {}
    /\ Len(emitted) = 3 /\ Len(updated_edges) = 2

\* C18 as the specification states it: trigger() re-arms every trigger
\* ever created, those built with UpdateTrigger::create included.
C18_EveryCreatedTriggerRearmed ==
    [][cycle' # cycle =>
          /\ \A t \in Slots :
                updated_triggers'[t].version = updated_triggers'[t].prev_version
          /\ \A i \in 1..Len(detached) :
                detached'[i].version = detached'[i].prev_version]_vars

\* The tag of the other variant for the same edge.
Mirror(tag) ==
    [tag EXCEPT !.dir = IF tag.dir = "Source" THEN "Target" ELSE "Source"]

\* C20 (mirror resolution): for every edge e of the graph, with endpoints
\* (s, t), Source(e) resolves to source s and target t and Target(e) to
\* source t and target s; and what the scheduler resolved a queued tag to is
\* its edge's two endpoints, in the order its variant says, the mirror tag
\* resolving to the same two the other way round.
C20_MirrorResolution ==
    /\ \A e \in DOMAIN graph :
          LET s == graph[e][1]
              t == graph[e][2]
              src == DirectedEdge("Source", e, 0, 0)
              tgt == DirectedEdge("Target", e, 0, 0)
          IN  /\ get_source(src, graph) = s /\ get_target(tgt, graph) = s
              /\ get_target(src, graph) = t /\ get_source(tgt, graph) = t
    /\ resolved # NoResult =>
          LET tag == resolved.tag
              s == graph[tag.index][1]
              t == graph[tag.index][2]
          IN  /\ <<resolved.source, resolved.target>> =
                     (IF tag.dir = "Source" THEN <<s, t>> ELSE <<t, s>>)
              /\ get_source(Mirror(tag), graph) = resolved.target
              /\ get_target(Mirror(tag), graph) = resolved.source

\* A Target tag of an edge between two different nodes has been resolved, to
\* the edge's second endpoint as source and its first as target.
C20_Witness ==
    /\ resolved # NoResult
    /\ resolved.tag.dir = "Target"
    /\ resolved.source # resolved.target
    /\ resolved.source = graph[resolved.tag.index][2]
    /\ resolved.target = graph[resolved.tag.index][1]

\* Tags slot t has emitted since it was created, queued or pending.
EmittedBy(t) == {i \in 1..Len(Delivered) : Delivered[i].by = t}

\* C21 (what the two counters count): a registered trigger's version never
\* decreases and equals the number of tags the trigger has emitted since it
\* was created; its prev_version is the value version had at the last
\* trigger() call: trigger() sets it to version, no other step changes it,
\* and it counts the trigger's tags of earlier cycles (0 before the first
\* trigger() call of its life).
C21_CountersMeaning ==
    /\ [](\A t \in Slots :
            /\ updated_triggers[t].version = Cardinality(EmittedBy(t))
            /\ updated_triggers[t].prev_version =
                  Cardinality({i \in EmittedBy(t) : Delivered[i].cyc < cycle}))
    /\ [][\A t \in Slots :
            /\ updated_triggers'[t].version >= updated_triggers[t].version
            /\ updated_triggers'[t].prev_version =
                  (IF cycle' # cycle THEN updated_triggers[t].version
                   ELSE updated_triggers[t].prev_version)]_vars

\* A trigger fired in both cycles and has been re-armed once since: version
\* 2 over a baseline of 1, one tag queued and one pending; another trigger
\* has never fired.
C21_Witness ==
    /\ cycle = 1
    /\ \E t, u \in Slots :
          /\ updated_triggers[t].version = 2
          /\ updated_triggers[t].prev_version = 1
          /\ Cardinality(TagsBy(t)) = 1
          /\ updated_triggers[u].version = 0
          /\ updated_triggers[u].prev_version = 0

\* C22 (never more than one event ahead): every registered trigger has
\* version - prev_version equal to 0 or 1.
C22_AtMostOneAhead ==
    \A t \in Slots :
        updated_triggers[t].version - updated_triggers[t].prev_version \in {0, 1}

\* In its second cycle of firing a trigger was signalled again after it
\* fired, and is still one ahead.
C22_Witness ==
    \E t \in Slots :
        /\ Len(hist[t]) = 2
        /\ updated_triggers[t].prev_version = 1
        /\ updated_triggers[t].version = 2

\* C23 (pending tags and armed state): the number of tags a registered
\* trigger has in the dirty list equals its version - prev_version, so it is
\* armed exactly when it has none pending; and while the dirty list holds no
\* tag of a direct update_edge call it is no longer than the registry.
C23_PendingMatchesVersion ==
    /\ \A t \in Slots :
          /\ Cardinality(TagsBy(t)) =
                updated_triggers[t].version - updated_triggers[t].prev_version
          /\ Armed(t) <=> TagsBy(t) = {}
    /\ (\A i \in 1..Len(updated_edges) : updated_edges[i].by # 0) =>
          Len(updated_edges) <= Len(updated_triggers)

\* Every registered trigger has fired, one of them after three signals: the
\* dirty list is as long as the registry, and no trigger is armed.
C23_Witness ==
    /\ Len(updated_triggers) = 2
    /\ Len(updated_edges) = 2
    /\ \A t \in Slots : ~Armed(t) /\ Cardinality(TagsBy(t)) = 1
    /\ calls = 3

\* C24 (net effect of trigger() on the queue): popping the dirty list from
\* its end and pushing each tag at the front of the queue leaves the queue as
\* the cycle's tags in the order they were recorded, followed by what the
\* queue held before; the tag recorded last is the first one moved, so it
\* stands directly before the old contents.
C24_NetEffect ==
    [][cycle' # cycle =>
          /\ queue' = updated_edges \o queue
          /\ updated_edges # <<>> =>
                queue'[Len(updated_edges)] = updated_edges[Len(updated_edges)]]_vars

\* The second cycle recorded a direct tag and then a trigger's tag: the
\* queue reads them in that order, ahead of the first cycle's tag.
C24_Witness ==
    /\ cycle = 2
    /\ Len(queue) = 3
    /\ queue[1].cyc = 1 /\ queue[1].by = 0
    /\ queue[2].cyc = 1 /\ queue[2].by # 0
    /\ queue[3].cyc = 0

\* C25 (no lost wake-up): every registered trigger that was signalled through
\* its handle since the last trigger() call, whether the signal emitted or
\* was coalesced, has a tag with its edge in the batch the next trigger()
\* call puts on the queue.
C25_NoLostWakeup ==
    [][cycle' # cycle =>
          \A t \in Slots :
              hist[t] # <<>> =>
                  \E i \in 1..Len(Batch) :
                      /\ Batch[i].by = t
                      /\ Batch[i].index = updated_triggers[t].index
                      /\ Batch[i].cyc = cycle]_vars

\* A trigger that fired in the first cycle was signalled twice in the second,
\* the later signal coalesced, and the second trigger() has queued its tag of
\* that cycle.
C25_Witness ==
    /\ cycle = 2
    /\ calls = 3
    /\ Len(queue) = 2
    /\ queue[1].by # 0
    /\ queue[1].by = queue[2].by
    /\ queue[1].cyc = 1 /\ queue[2].cyc = 0

\* C26 (triggers are independent): a signal received by one trigger leaves
\* every other registry entry as it was, a trigger of the same edge included;
\* and when two triggers of one edge were both signalled in a cycle, the batch
\* of trigger() holds a tag of that edge from each of them, one apiece.
C26_Independent ==
    /\ [][\A t \in Slots :
            SignalOn(t) =>
                \A u \in Slots \ {t} : updated_triggers'[u] = updated_triggers[u]]_vars
    /\ [][cycle' # cycle =>
            \A t, u \in Slots :
                (/\ t # u
                 /\ updated_triggers[t].index = updated_triggers[u].index
                 /\ hist[t] # <<>> /\ hist[u] # <<>>) =>
                    /\ Cardinality({i \in 1..Len(Batch) : Batch[i].by = t}) = 1
                    /\ Cardinality({i \in 1..Len(Batch) : Batch[i].by = u}) = 1
                    /\ \A i \in 1..Len(Batch) :
                          Batch[i].by \in {t, u} =>
                              Batch[i].index = updated_triggers[t].index]_vars

\* Two triggers of one edge received the same signal in the first cycle and
\* the queue holds two tags of that edge, alike but for the trigger each came
\* from.
C26_Witness ==
    /\ cycle = 1
    /\ Len(updated_triggers) = 2
    /\ updated_triggers[1].index = updated_triggers[2].index
    /\ Len(queue) = 2
    /\ queue[1].by # 0 /\ queue[2].by # 0
    /\ queue[1].by # queue[2].by
    /\ queue[1].dir = queue[2].dir
    /\ queue[1].index = queue[2].index

\* C27 (trigger() twice in a row): a trigger() call that follows another
\* with no tag recorded in between changes neither the queue nor the dirty
\* list nor any trigger's version or prev_version.
C27_RollIdempotent ==
    [][(cycle' # cycle /\ cycle >= 1 /\ updated_edges = <<>>) =>
          UNCHANGED <<queue, updated_edges, updated_triggers>>]_vars

\* Two trigger() calls, nothing recorded after the first: the queue holds
\* the first cycle's tags only and the triggers that fired are armed.
C27_Witness ==
    /\ cycle = 2
    /\ Len(queue) = 2
    /\ \A i \in 1..Len(queue) : queue[i].cyc = 0 /\ queue[i].by # 0
    /\ \A t \in Slots : Armed(t) /\ updated_triggers[t].version = 1
    /\ hist = <<<<>>, <<>>>>

\* C28 (resolving a tag of a removed edge): a resolution leaves the graph as
\* it is; it ends in a panic of get_source and of get_target when the tag's
\* edge is not in the graph, and yields the edge's two endpoints when it is;
\* and for every recorded or queued tag, get_source and get_target each give
\* a node exactly when the tag's edge is in the graph.
C28_StaleTagPanics ==
    /\ [][resolved' # resolved =>
            /\ graph' = graph
            /\ LET e == resolved'.tag.index
               IN  IF e \in DOMAIN graph
                   THEN {resolved'.source, resolved'.target} =
                            {graph[e][1], graph[e][2]}
                   ELSE resolved'.source = "panic" /\ resolved'.target = "panic"]_vars
    /\ [](\A tag \in Range(Delivered) :
            /\ get_source(tag, graph) \in Nodes <=> tag.index \in DOMAIN graph
            /\ get_target(tag, graph) \in Nodes <=> tag.index \in DOMAIN graph
            /\ tag.index \notin DOMAIN graph =>
                  (get_source(tag, graph) = "panic" /\ get_target(tag, graph) = "panic"))

\* A tag was recorded and queued, its edge was removed while the other edge
\* stayed, and resolving the tag has ended in a panic.
C28_Witness ==
    /\ resolved # NoResult
    /\ resolved.tag \in Range(queue)
    /\ resolved.tag.index \notin DOMAIN graph
    /\ DOMAIN graph # {}
    /\ resolved.source = "panic" /\ resolved.target = "panic"

====
